---- MODULE Spec2Model ----
(***************************************************************************)
(* Model of the actuator provider (components/actuator-provider/src/main.c) *)
(* of service-to-signal: the Wi-Fi bootstrap with its retry counter, the   *)
(* classification of an inbound sample by its attachment, the actuation of *)
(* the LED and the confirmation publish.                                   *)
(*                                                                         *)
(* Strings are sequences of byte values (ASCII codes); a C string literal  *)
(* is the sequence of its bytes and is followed in memory by a NUL (0).    *)
(***************************************************************************)
EXTENDS Integers, Sequences, FiniteSets, TLC

\* ------------------------------------------------------------------------
\* Bounds of the model
\* ------------------------------------------------------------------------

\* CONFIG_ESP_MAXIMUM_RETRY is a Kconfig value that the sources do not fix.
ESP_MAXIMUM_RETRY == 2

\* Number of samples the transport delivers in one run.
MaxSamples == 3

\* Number of bytes appended to a literal to build over-long attachments.
MaxExtra == 2

\* ------------------------------------------------------------------------
\* String literals of the program
\* ------------------------------------------------------------------------

\* "currentValue"
STR_currentValue == <<99, 117, 114, 114, 101, 110, 116, 86, 97, 108, 117, 101>>
\* "targetValue"
STR_targetValue == <<116, 97, 114, 103, 101, 116, 86, 97, 108, 117, 101>>
\* "true"
STR_true == <<116, 114, 117, 101>>
\* "false"
STR_false == <<102, 97, 108, 115, 101>>
\* "zenoh/string;utf8"
STR_encoding == <<122, 101, 110, 111, 104, 47, 115, 116, 114, 105, 110, 103, 59, 117, 116, 102, 56>>
\* MODE: "client" (CLIENT_OR_PEER == 0)
MODE == <<99, 108, 105, 101, 110, 116>>
\* ""
STR_empty == <<>>

\* The three values of signal_type_t.
SIGNAL_TYPE_CURRENT_VALUE == "SIGNAL_TYPE_CURRENT_VALUE"
SIGNAL_TYPE_TARGET_VALUE == "SIGNAL_TYPE_TARGET_VALUE"
SIGNAL_TYPE_UNKNOWN == "SIGNAL_TYPE_UNKNOWN"

\* An optional attachment: z_sample_attachment() returns NULL when the sample
\* carries none, and the attachment's bytes otherwise.
NoAttachment == [present |-> FALSE, data |-> <<>>]
Attachment(bytes) == [present |-> TRUE, data |-> bytes]

\* ------------------------------------------------------------------------
\* C library functions, computed as the C library computes them
\* ------------------------------------------------------------------------

\* The byte at 1-based position i of a string literal: past its last byte
\* comes the terminating NUL.
LitByte(lit, i) == IF i <= Len(lit) THEN lit[i] ELSE 0

\* strncmp(data, lit, n) from position i on: compares at most n bytes, stops
\* at the first difference and also after a NUL that both strings share.
\* data holds at least n bytes; lit is a NUL-terminated literal.
RECURSIVE strncmp_from(_, _, _, _)
strncmp_from(data, lit, n, i) ==
    IF i > n THEN 0
    ELSE IF data[i] # LitByte(lit, i) THEN data[i] - LitByte(lit, i)
    ELSE IF data[i] = 0 THEN 0
    ELSE strncmp_from(data, lit, n, i + 1)

strncmp(data, lit, n) == strncmp_from(data, lit, n, 1)

\* snprintf(buffer, size, "%s", value): at most size - 1 bytes are stored.
snprintf_s(size, value) ==
    IF Len(value) <= size - 1 THEN value ELSE SubSeq(value, 1, size - 1)

\* ------------------------------------------------------------------------
\* Signal classification
\* ------------------------------------------------------------------------

\* attachment_handler: the length handed to strncmp is the attachment's own
\* length (z_string_len), whatever the length of the literal.
attachment_handler(attachment) ==
    IF attachment.present
    THEN LET data == attachment.data
             len == Len(attachment.data)
         IN  IF strncmp(data, STR_currentValue, len) = 0
             THEN SIGNAL_TYPE_CURRENT_VALUE
             ELSE IF strncmp(data, STR_targetValue, len) = 0
             THEN SIGNAL_TYPE_TARGET_VALUE
             ELSE SIGNAL_TYPE_UNKNOWN
    ELSE SIGNAL_TYPE_UNKNOWN

\* The payload test for "true" without the test of the length.
IsTruePayload_AnyLength(value) ==
    Len(value) >= 4 /\ strncmp(value, STR_true, 4) = 0

\* The payload test of data_handler: "true", "false" or neither.
IsTruePayload(value) == Len(value) = 4 /\ strncmp(value, STR_true, 4) = 0
IsFalsePayload(value) == Len(value) = 5 /\ strncmp(value, STR_false, 5) = 0

\* ------------------------------------------------------------------------
\* Locator validation
\* ------------------------------------------------------------------------

IsDigit(c) == c >= 48 /\ c <= 57
\* [a-zA-Z0-9_-]
IsIfaceChar(c) ==
    \/ (c >= 97 /\ c <= 122)
    \/ (c >= 65 /\ c <= 90)
    \/ IsDigit(c)
    \/ c = 95
    \/ c = 45

\* url has the bytes of lit at position i.
HasAt(url, i, lit) ==
    /\ i + Len(lit) - 1 <= Len(url)
    /\ \A k \in 1..Len(lit) : url[i + k - 1] = lit[k]

\* The matcher works on sets of positions: from each position of S where a
\* piece of the pattern can start, the positions where it can end.

\* The literal lit.
AfterLiteral(url, S, lit) == {i + Len(lit) : i \in {j \in S : HasAt(url, j, lit)}}

\* [0-9]{lo,hi}
AfterDigits(url, S, lo, hi) ==
    UNION {{i + n : n \in {m \in lo..hi :
                              /\ i + m - 1 <= Len(url)
                              /\ \A k \in 0..(m - 1) : IsDigit(url[i + k])}}
           : i \in S}

\* [a-zA-Z0-9_-]{lo,hi}
AfterIfaceChars(url, S, lo, hi) ==
    UNION {{i + n : n \in {m \in lo..hi :
                              /\ i + m - 1 <= Len(url)
                              /\ \A k \in 0..(m - 1) : IsIfaceChar(url[i + k])}}
           : i \in S}

\* ([0-9]{1,3}\.)
AfterOctetDot(url, S) == AfterLiteral(url, AfterDigits(url, S, 1, 3), <<46>>)

\* The pattern without its closing "$": the match may end anywhere.
RegexMatches_Unanchored(url) ==
    LET tcp == AfterLiteral(url, {1}, <<116, 99, 112, 47>>)
        octets == AfterOctetDot(url, AfterOctetDot(url, AfterOctetDot(url, tcp)))
        colon == AfterLiteral(url, AfterDigits(url, octets, 1, 3), <<58>>)
        port == AfterDigits(url, colon, 1, Len(url))
        iface == AfterLiteral(url, port, <<35, 105, 102, 97, 99, 101, 61>>)
    IN  AfterIfaceChars(url, iface, 1, Len(url)) # {}

\* regexec of "^tcp/([0-9]{1,3}\.){3}[0-9]{1,3}:[0-9]+#iface=[a-zA-Z0-9_-]+$":
\* the match starts at the first byte and ends after the last.
RegexMatches(url) ==
    LET tcp == AfterLiteral(url, {1}, <<116, 99, 112, 47>>)
        octets == AfterOctetDot(url, AfterOctetDot(url, AfterOctetDot(url, tcp)))
        colon == AfterLiteral(url, AfterDigits(url, octets, 1, 3), <<58>>)
        port == AfterDigits(url, colon, 1, Len(url))
        iface == AfterLiteral(url, port, <<35, 105, 102, 97, 99, 101, 61>>)
    IN  Len(url) + 1 \in AfterIfaceChars(url, iface, 1, Len(url))

\* is_valid_locator: 0 on a match, REG_NOMATCH (1) otherwise.  The pattern
\* is a constant that compiles, so the -1 branch is not taken.
is_valid_locator(url) == IF RegexMatches(url) THEN 0 ELSE 1

\* ------------------------------------------------------------------------
\* Confirmation publisher
\* ------------------------------------------------------------------------

\* pub_status tagging the confirmation as a command.
pub_status_TargetTag(value) ==
    [payload |-> snprintf_s(32, value),
     attachment |-> STR_targetValue,
     encoding |-> STR_encoding]

\* pub_status: the message handed to z_publisher_put.  The value goes
\* through a 32-byte buffer.
pub_status(value) ==
    [payload |-> snprintf_s(32, value),
     attachment |-> STR_currentValue,
     encoding |-> STR_encoding]

\* ------------------------------------------------------------------------
\* Actuation engine: the branch data_handler takes
\* ------------------------------------------------------------------------

\* data_handler acting on every sample whose attachment is recognised.
data_handler_branch_AnyKnown(type, value) ==
    IF type # SIGNAL_TYPE_UNKNOWN
    THEN IF IsTruePayload(value) THEN "on"
         ELSE IF IsFalsePayload(value) THEN "off"
         ELSE "unknown"
    ELSE "discard"

\* "on": lines 231-233, "off": lines 235-237, "unknown": lines 239-240,
\* "discard": the sample is not a target value.
data_handler_branch(type, value) ==
    IF type = SIGNAL_TYPE_TARGET_VALUE
    THEN IF IsTruePayload(value) THEN "on"
         ELSE IF IsFalsePayload(value) THEN "off"
         ELSE "unknown"
    ELSE "discard"

\* The two branches driving the pin to the same level.
BranchLevel_AlwaysHigh(branch) == 1
\* The two branches publishing the same literal.
BranchLiteral_AlwaysTrue(branch) == STR_true

\* The level passed to gpio_set_level and the literal passed to pub_status.
BranchLevel(branch) == IF branch = "on" THEN 1 ELSE 0
BranchLiteral(branch) == IF branch = "on" THEN STR_true ELSE STR_false

\* ------------------------------------------------------------------------
\* Wi-Fi event handler
\* ------------------------------------------------------------------------

WIFI_EVENT == "WIFI_EVENT"
IP_EVENT == "IP_EVENT"
WIFI_EVENT_STA_START == "WIFI_EVENT_STA_START"
WIFI_EVENT_STA_DISCONNECTED == "WIFI_EVENT_STA_DISCONNECTED"
IP_EVENT_STA_GOT_IP == "IP_EVENT_STA_GOT_IP"

\* event_handler comparing the counter with <= instead of <.
event_handler_OneMore(event_base, event_id, retry, bits) ==
    IF event_base = WIFI_EVENT /\ event_id = WIFI_EVENT_STA_START
    THEN [connect |-> TRUE, retry |-> retry, bits |-> bits]
    ELSE IF event_base = WIFI_EVENT /\ event_id = WIFI_EVENT_STA_DISCONNECTED
    THEN IF retry <= ESP_MAXIMUM_RETRY
         THEN [connect |-> TRUE, retry |-> retry + 1, bits |-> bits]
         ELSE [connect |-> FALSE, retry |-> retry, bits |-> bits]
    ELSE IF event_base = IP_EVENT /\ event_id = IP_EVENT_STA_GOT_IP
    THEN [connect |-> FALSE, retry |-> 0, bits |-> TRUE]
    ELSE [connect |-> FALSE, retry |-> retry, bits |-> bits]

\* event_handler reconnecting without counting the retry.
event_handler_NoIncrement(event_base, event_id, retry, bits) ==
    IF event_base = WIFI_EVENT /\ event_id = WIFI_EVENT_STA_START
    THEN [connect |-> TRUE, retry |-> retry, bits |-> bits]
    ELSE IF event_base = WIFI_EVENT /\ event_id = WIFI_EVENT_STA_DISCONNECTED
    THEN IF retry < ESP_MAXIMUM_RETRY
         THEN [connect |-> TRUE, retry |-> retry, bits |-> bits]
         ELSE [connect |-> FALSE, retry |-> retry, bits |-> bits]
    ELSE IF event_base = IP_EVENT /\ event_id = IP_EVENT_STA_GOT_IP
    THEN [connect |-> FALSE, retry |-> 0, bits |-> TRUE]
    ELSE [connect |-> FALSE, retry |-> retry, bits |-> bits]

\* event_handler on (event_base, event_id) with the retry counter at retry
\* and the connected bit at bits: whether esp_wifi_connect is called, the
\* new counter and the new bit.
event_handler(event_base, event_id, retry, bits) ==
    IF event_base = WIFI_EVENT /\ event_id = WIFI_EVENT_STA_START
    THEN [connect |-> TRUE, retry |-> retry, bits |-> bits]
    ELSE IF event_base = WIFI_EVENT /\ event_id = WIFI_EVENT_STA_DISCONNECTED
    THEN IF retry < ESP_MAXIMUM_RETRY
         THEN [connect |-> TRUE, retry |-> retry + 1, bits |-> bits]
         ELSE [connect |-> FALSE, retry |-> retry, bits |-> bits]
    ELSE IF event_base = IP_EVENT /\ event_id = IP_EVENT_STA_GOT_IP
    THEN [connect |-> FALSE, retry |-> 0, bits |-> TRUE]
    ELSE [connect |-> FALSE, retry |-> retry, bits |-> bits]

\* ------------------------------------------------------------------------
\* Inputs
\* ------------------------------------------------------------------------

\* "tcp/192.168.1.10:7447#iface=eth0"
LOC_full ==
    <<116, 99, 112, 47, 49, 57, 50, 46, 49, 54, 56, 46, 49, 46, 49, 48, 58,
      55, 52, 52, 55, 35, 105, 102, 97, 99, 101, 61, 101, 116, 104, 48>>
\* "tcp/192.168.1.10:7447"
LOC_noiface == SubSeq(LOC_full, 1, 21)
\* The locators config.h may be built with; it ships with "".
Locators == {STR_empty, LOC_full, LOC_noiface}

\* Arguments for is_valid_locator, put together from the segments of its
\* pattern.
STR_tcp == <<116, 99, 112, 47>>
STR_iface == <<35, 105, 102, 97, 99, 101, 61>>
\* "1", "10", "999"
OctetStrs == {<<49>>, <<49, 48>>, <<57, 57, 57>>}
\* "7", "7447"
PortStrs == {<<55>>, <<55, 52, 52, 55>>}
\* "e", "eth0", "w_-Z"
IfaceNames == {<<101>>, <<101, 116, 104, 48>>, <<119, 95, 45, 90>>}
RECURSIVE OctetsDotted(_)
\* The octets with a '.' between neighbours.
OctetsDotted(os) ==
    IF Len(os) = 0 THEN <<>>
    ELSE IF Len(os) = 1 THEN os[1]
    ELSE os[1] \o <<46>> \o OctetsDotted(Tail(os))
BuildLocator(prefix, os, portpart, ifacepart) ==
    prefix \o OctetsDotted(os) \o portpart \o ifacepart
\* tcp/<octet>.<octet>.<octet>.<octet>:<port>#iface=<name>
WellFormedLocators ==
    {BuildLocator(STR_tcp, os, <<58>> \o p, STR_iface \o n) :
        os \in [1..4 -> OctetStrs], p \in PortStrs, n \in IfaceNames}
\* The same with the protocol prefix left out or replaced by "udp/".
NoPrefixLocators ==
    {BuildLocator(pre, os, <<58>> \o p, STR_iface \o n) :
        pre \in {<<>>, <<117, 100, 112, 47>>},
        os \in [1..4 -> {<<49>>, <<57, 57, 57>>}], p \in PortStrs, n \in IfaceNames}
\* Three octets only, or four of which one is empty.
NoOctetLocators ==
    {BuildLocator(STR_tcp, os, <<58>> \o p, STR_iface \o n) :
        os \in [1..3 -> OctetStrs]
                \cup {o \in [1..4 -> {<<>>, <<49, 48>>}] : \E k \in 1..4 : o[k] = <<>>},
        p \in PortStrs, n \in IfaceNames}
\* No port: nothing at all, a ':' without digits, or digits without ':'.
NoPortLocators ==
    {BuildLocator(STR_tcp, os, pp, STR_iface \o n) :
        os \in [1..4 -> {<<49>>, <<57, 57, 57>>}],
        pp \in {<<>>, <<58>>, <<55, 52, 52, 55>>}, n \in IfaceNames}
\* No "#iface=": the locator ends after the port, or the name follows the
\* port directly, or "iface=" comes without '#'.
NoIfaceLocators ==
    {BuildLocator(STR_tcp, os, <<58>> \o p, ip) :
        os \in [1..4 -> {<<49>>, <<57, 57, 57>>}], p \in PortStrs,
        ip \in {<<>>, <<101, 116, 104, 48>>, Tail(STR_iface) \o <<101, 116, 104, 48>>}}
\* A well-formed locator after 'x', ' ' or "tcp/", or before '!', ' ' or
\* "#iface=eth0".
PaddedLocators ==
    {lead \o BuildLocator(STR_tcp, os, <<58>> \o p, STR_iface \o n) \o trail :
        lead \in {<<>>, <<120>>, <<32>>, STR_tcp},
        trail \in {<<>>, <<33>>, <<32>>, STR_iface \o <<101, 116, 104, 48>>},
        os \in [1..4 -> {<<49>>, <<57, 57, 57>>}], p \in {<<55, 52, 52, 55>>},
        n \in {<<101, 116, 104, 48>>}}
      \ WellFormedLocators
MalformedLocators ==
    NoPrefixLocators \cup NoOctetLocators \cup NoPortLocators
        \cup NoIfaceLocators \cup PaddedLocators
LocatorInputs == WellFormedLocators \cup MalformedLocators \cup Locators

\* Bytes appended to a literal: NUL, '1', 'X', 'e'.
ExtBytes == {0, 49, 88, 101}
Extensions == UNION {[1..k -> ExtBytes] : k \in 1..MaxExtra}
ProperPrefixes(lit) == {SubSeq(lit, 1, k) : k \in 0..(Len(lit) - 1)}
\* The literal with one byte replaced by '_'.
Replaced(lit) == {[lit EXCEPT ![k] = 95] : k \in 1..Len(lit)}

\* Attachment strings for the classifier: the two literals, their proper
\* prefixes, the literals followed by extra bytes, and near misses.
Tags ==
    {STR_currentValue, STR_targetValue}
        \cup ProperPrefixes(STR_currentValue) \cup ProperPrefixes(STR_targetValue)
        \cup {STR_currentValue \o e : e \in Extensions}
        \cup {STR_targetValue \o e : e \in Extensions}
        \cup Replaced(STR_currentValue) \cup Replaced(STR_targetValue)
Attachments == {NoAttachment} \cup {Attachment(t) : t \in Tags}

\* Attachments and payloads of the samples the transport delivers.
SampleAttachments ==
    {NoAttachment,
     Attachment(STR_currentValue),
     Attachment(STR_targetValue),
     Attachment(SubSeq(STR_targetValue, 1, 6)),
     Attachment(STR_empty),
     Attachment(STR_currentValue \o <<88>>)}
SamplePayloads ==
    {STR_true, STR_false, STR_empty,
     <<109, 97, 121, 98, 101>>,
     <<116, 114, 117>>,
     <<116, 114, 117, 101, 101>>,
     <<84, 114, 117, 101>>}
Samples == [attachment : SampleAttachments, payload : SamplePayloads]
NoSample == [attachment |-> NoAttachment, payload |-> STR_empty]

\* ------------------------------------------------------------------------
\* State
\* ------------------------------------------------------------------------

VARIABLES
    pc,                  \* position of the main task in app_main / wifi_init_sta
    LOCATOR,             \* the locator literal of config.h
    s_is_wifi_connected, \* static bool s_is_wifi_connected
    s_retry_count,       \* static int s_retry_count
    event_bits,          \* WIFI_CONNECTED_BIT of s_event_group_handler
    handler_any_id,      \* event_handler is registered for WIFI_EVENT
    handler_got_ip,      \* event_handler is registered for IP_EVENT_STA_GOT_IP
    wifi,                \* the Wi-Fi driver: off, started, connecting, connected, idle
    attempts,            \* esp_wifi_connect calls since the last link-up event
    downs,               \* link-down events event_handler has handled since it
                         \* last handled a link-up
    connect_key,         \* the locator inserted under Z_CONFIG_CONNECT_KEY
    session,             \* z_open succeeded, read and lease tasks run
    sub,                 \* the subscriber is declared
    pub,                 \* the publisher `pub` is declared
    led_level,           \* the level of LED_GPIO
    handler_pc,          \* position of the read task in data_handler
    sample,              \* the sample data_handler was last called with
    signal_type,         \* data_handler's local signal_type
    published,           \* the messages handed to z_publisher_put, in order
    put_rc,              \* the result of the last z_publisher_put
    delivered,           \* number of samples delivered so far
    expected,            \* payloads of the delivered valid commands, in order
    entry_level,         \* led_level when data_handler was last entered
    entry_published,     \* Len(published) when data_handler was last entered
    in_flight,           \* the messages z_publisher_put accepted that have not
                         \* come back to the subscriber
    echoes               \* number of delivered samples that were the device's
                         \* own messages

wifi_vars ==
    <<s_is_wifi_connected, s_retry_count, event_bits, handler_any_id,
      handler_got_ip, wifi, attempts, downs>>
boot_vars == <<LOCATOR, connect_key, session, sub, pub>>
handler_vars ==
    <<handler_pc, sample, signal_type, published, put_rc, delivered, expected,
      entry_level, entry_published, in_flight, echoes>>
vars == <<pc, wifi_vars, boot_vars, led_level, handler_vars>>

InitHandler ==
    /\ led_level = 0
    /\ handler_pc = "idle"
    /\ signal_type = "unset"
    /\ published = <<>>
    /\ put_rc = 0
    /\ delivered = 0
    /\ expected = <<>>
    /\ entry_level = 0
    /\ entry_published = 0
    /\ in_flight = <<>>
    /\ echoes = 0

InitBoot ==
    /\ pc = "nvs_flash_init"
    /\ LOCATOR \in Locators
    /\ s_is_wifi_connected = FALSE
    /\ s_retry_count = 0
    /\ event_bits = FALSE
    /\ handler_any_id = FALSE
    /\ handler_got_ip = FALSE
    /\ wifi = "off"
    /\ attempts = 0
    /\ downs = 0
    /\ connect_key = STR_empty
    /\ session = FALSE
    /\ sub = FALSE
    /\ pub = FALSE

Init == InitBoot /\ InitHandler /\ sample = NoSample

\* ------------------------------------------------------------------------
\* The main task: app_main and wifi_init_sta
\* ------------------------------------------------------------------------

Running == pc \notin {"exited", "aborted"}

\* app_main, lines 249-257: ESP_ERROR_CHECK aborts when nvs_flash_init fails.
NvsFlashInit ==
    /\ pc = "nvs_flash_init"
    /\ \E ok \in BOOLEAN : pc' = IF ok THEN "wifi_init_sta" ELSE "aborted"
    /\ UNCHANGED <<wifi_vars, boot_vars, led_level, handler_vars>>

\* wifi_init_sta, lines 154-178: the event group is created, event_handler
\* is registered twice and the driver is started.  ESP_ERROR_CHECK aborts
\* when a driver call fails.
WifiInitSta ==
    /\ pc = "wifi_init_sta"
    /\ \E ok \in BOOLEAN :
          IF ok
          THEN /\ pc' = "xEventGroupWaitBits"
               /\ event_bits' = FALSE
               /\ handler_any_id' = TRUE
               /\ handler_got_ip' = TRUE
               /\ wifi' = "started"
          ELSE /\ pc' = "aborted"
               /\ UNCHANGED <<event_bits, handler_any_id, handler_got_ip, wifi>>
    /\ UNCHANGED <<s_is_wifi_connected, s_retry_count, attempts, downs>>
    /\ UNCHANGED <<boot_vars, led_level, handler_vars>>

\* xEventGroupWaitBits with a finite timeout: it also returns with the bit
\* clear.
WaitBits_TimesOut ==
    /\ pc = "xEventGroupWaitBits"
    /\ s_is_wifi_connected' = (IF event_bits THEN TRUE ELSE s_is_wifi_connected)
    /\ pc' = "unregister_got_ip"
    /\ UNCHANGED <<s_retry_count, event_bits, handler_any_id, handler_got_ip,
                   wifi, attempts, downs>>
    /\ UNCHANGED <<boot_vars, led_level, handler_vars>>

\* wifi_init_sta, lines 180-186: xEventGroupWaitBits with portMAX_DELAY
\* returns only once WIFI_CONNECTED_BIT is set.
WaitBits ==
    /\ pc = "xEventGroupWaitBits"
    /\ event_bits
    /\ s_is_wifi_connected' = (IF event_bits THEN TRUE ELSE s_is_wifi_connected)
    /\ pc' = "unregister_got_ip"
    /\ UNCHANGED <<s_retry_count, event_bits, handler_any_id, handler_got_ip,
                   wifi, attempts, downs>>
    /\ UNCHANGED <<boot_vars, led_level, handler_vars>>

\* wifi_init_sta, lines 188-189.
UnregisterGotIp ==
    /\ pc = "unregister_got_ip"
    /\ handler_got_ip' = FALSE
    /\ pc' = "unregister_any_id"
    /\ UNCHANGED <<s_is_wifi_connected, s_retry_count, event_bits,
                   handler_any_id, wifi, attempts, downs>>
    /\ UNCHANGED <<boot_vars, led_level, handler_vars>>

\* wifi_init_sta, lines 190-192.
UnregisterAnyId ==
    /\ pc = "unregister_any_id"
    /\ handler_any_id' = FALSE
    /\ pc' = "wait_connected"
    /\ UNCHANGED <<s_is_wifi_connected, s_retry_count, event_bits,
                   handler_got_ip, wifi, attempts, downs>>
    /\ UNCHANGED <<boot_vars, led_level, handler_vars>>

\* app_main, lines 262-266: the loop is left once the flag is set; while it
\* is not, the task sleeps and looks again.
WaitConnected ==
    /\ pc = "wait_connected"
    /\ s_is_wifi_connected
    /\ pc' = "gpio_init"
    /\ UNCHANGED <<wifi_vars, boot_vars, led_level, handler_vars>>

\* gpio_init, lines 49-52: the pin is reset and made an output.
GpioInit ==
    /\ pc = "gpio_init"
    /\ led_level' = 0
    /\ pc' = "is_valid_locator"
    /\ UNCHANGED <<wifi_vars, boot_vars, handler_vars>>

\* app_main, lines 272-286.
CheckLocator ==
    /\ pc = "is_valid_locator"
    /\ IF is_valid_locator(LOCATOR) # 0
       THEN /\ pc' = "exited"
            /\ UNCHANGED connect_key
       ELSE /\ pc' = "z_open"
            /\ connect_key' =
                   IF LOCATOR # STR_empty /\ MODE = <<99, 108, 105, 101, 110, 116>>
                   THEN LOCATOR ELSE connect_key
    /\ UNCHANGED <<LOCATOR, session, sub, pub>>
    /\ UNCHANGED <<wifi_vars, led_level, handler_vars>>

\* app_main, lines 289-299.
ZOpen ==
    /\ pc = "z_open"
    /\ \E ok \in BOOLEAN :
          /\ pc' = IF ok THEN "z_declare_subscriber" ELSE "exited"
          /\ session' = ok
    /\ UNCHANGED <<LOCATOR, connect_key, sub, pub>>
    /\ UNCHANGED <<wifi_vars, led_level, handler_vars>>

\* app_main going on to the publisher although the subscriber failed.
DeclareSubscriber_GoesOn ==
    /\ pc = "z_declare_subscriber"
    /\ \E ok \in BOOLEAN :
          /\ pc' = "z_declare_publisher"
          /\ sub' = ok
    /\ UNCHANGED <<LOCATOR, connect_key, session, pub>>
    /\ UNCHANGED <<wifi_vars, led_level, handler_vars>>

\* app_main, lines 301-312.
DeclareSubscriber ==
    /\ pc = "z_declare_subscriber"
    /\ \E ok \in BOOLEAN :
          /\ pc' = IF ok THEN "z_declare_publisher" ELSE "exited"
          /\ sub' = ok
    /\ UNCHANGED <<LOCATOR, connect_key, session, pub>>
    /\ UNCHANGED <<wifi_vars, led_level, handler_vars>>

\* app_main, lines 314-324: after the publisher is declared the main task
\* sleeps for ever.
DeclarePublisher ==
    /\ pc = "z_declare_publisher"
    /\ \E ok \in BOOLEAN :
          /\ pc' = IF ok THEN "idle" ELSE "exited"
          /\ pub' = ok
    /\ UNCHANGED <<LOCATOR, connect_key, session, sub>>
    /\ UNCHANGED <<wifi_vars, led_level, handler_vars>>

\* ------------------------------------------------------------------------
\* The event loop task: Wi-Fi and IP events
\* ------------------------------------------------------------------------

\* The registrations of lines 166-169 that are still in place.
Registered(event_base, event_id) ==
    \/ event_base = WIFI_EVENT /\ handler_any_id
    \/ event_base = IP_EVENT /\ event_id = IP_EVENT_STA_GOT_IP /\ handler_got_ip

\* The event loop dispatches one event; link is the state the driver is in
\* when the event is posted.  event_handler runs when it is registered for
\* the event, and esp_wifi_connect starts an association.
Dispatch(event_base, event_id, link) ==
    LET handled == Registered(event_base, event_id)
        r == IF handled
             THEN event_handler(event_base, event_id, s_retry_count, event_bits)
             ELSE [connect |-> FALSE, retry |-> s_retry_count, bits |-> event_bits]
    IN  /\ Running
        /\ s_retry_count' = r.retry
        /\ event_bits' = r.bits
        /\ wifi' = IF r.connect THEN "connecting" ELSE link
        /\ attempts' = IF event_id = IP_EVENT_STA_GOT_IP THEN 0
                       ELSE IF r.connect THEN attempts + 1 ELSE attempts
        /\ downs' = IF ~handled THEN downs
                    ELSE IF event_id = WIFI_EVENT_STA_DISCONNECTED THEN downs + 1
                    ELSE IF event_id = IP_EVENT_STA_GOT_IP THEN 0
                    ELSE downs
        /\ UNCHANGED <<s_is_wifi_connected, handler_any_id, handler_got_ip>>
        /\ UNCHANGED <<pc, boot_vars, led_level, handler_vars>>

\* esp_wifi_start has completed.
StaStart ==
    /\ wifi = "started"
    /\ Dispatch(WIFI_EVENT, WIFI_EVENT_STA_START, "idle")

\* Link-down: an association attempt failed or the connection was lost.
StaDisconnected ==
    /\ wifi \in {"connecting", "connected"}
    /\ Dispatch(WIFI_EVENT, WIFI_EVENT_STA_DISCONNECTED, "idle")

\* Link-up: the association succeeded and an address was obtained.
StaGotIp ==
    /\ wifi = "connecting"
    /\ Dispatch(IP_EVENT, IP_EVENT_STA_GOT_IP, "connected")

\* ------------------------------------------------------------------------
\* The read task: data_handler
\* ------------------------------------------------------------------------

\* The criterion that makes a delivered sample a valid command.
ValidCommand(s) ==
    /\ attachment_handler(s.attachment) = SIGNAL_TYPE_TARGET_VALUE
    /\ s.payload \in {STR_true, STR_false}

\* data_handler, lines 195-230 and 238-245: the sample is classified; a
\* sample that is no recognised command is logged and the handler returns.
DataHandlerEntry(s) ==
    /\ Running
    /\ sub
    /\ handler_pc = "idle"
    /\ sample' = s
    /\ signal_type' = attachment_handler(s.attachment)
    /\ handler_pc' =
          IF data_handler_branch(signal_type', s.payload) \in {"on", "off"}
          THEN "gpio_set_level" ELSE "idle"
    /\ delivered' = delivered + 1
    /\ expected' = IF ValidCommand(s) THEN Append(expected, s.payload) ELSE expected
    /\ entry_level' = led_level
    /\ entry_published' = Len(published)
    /\ UNCHANGED <<published, put_rc>>
    /\ UNCHANGED <<pc, wifi_vars, boot_vars, led_level>>

\* The transport delivers one of the samples.
Deliver ==
    /\ delivered - echoes < MaxSamples
    /\ \E s \in Samples : DataHandlerEntry(s)
    /\ UNCHANGED <<in_flight, echoes>>

\* The sample the subscriber gets when a message of pub_status comes back:
\* payload and attachment as published.
EchoSample(msg) ==
    [attachment |-> Attachment(msg.attachment), payload |-> msg.payload]

\* Publisher and subscriber are declared on the same KEYEXPR: the transport
\* delivers the oldest message it accepted back to data_handler.
DeliverEcho ==
    /\ in_flight # <<>>
    /\ DataHandlerEntry(EchoSample(Head(in_flight)))
    /\ in_flight' = Tail(in_flight)
    /\ echoes' = echoes + 1

\* data_handler publishing without having driven the pin.
GpioSetLevel_NoDrive ==
    /\ Running
    /\ handler_pc = "gpio_set_level"
    /\ handler_pc' = "pub_status"
    /\ UNCHANGED <<sample, signal_type, published, put_rc, delivered, expected,
                   entry_level, entry_published, in_flight, echoes>>
    /\ UNCHANGED <<pc, wifi_vars, boot_vars, led_level>>

\* data_handler, lines 232 and 236.
GpioSetLevel ==
    /\ Running
    /\ handler_pc = "gpio_set_level"
    /\ led_level' = BranchLevel(data_handler_branch(signal_type, sample.payload))
    /\ handler_pc' = "pub_status"
    /\ UNCHANGED <<sample, signal_type, published, put_rc, delivered, expected,
                   entry_level, entry_published, in_flight, echoes>>
    /\ UNCHANGED <<pc, wifi_vars, boot_vars>>

\* data_handler undoing the actuation when the put fails.
PubStatus_RollsBack ==
    /\ Running
    /\ handler_pc = "pub_status"
    /\ published' =
          Append(published,
                 pub_status(BranchLiteral(data_handler_branch(signal_type, sample.payload))))
    /\ \E rc \in {0, -1} :
          /\ (pub \/ rc = -1)
          /\ put_rc' = rc
          /\ in_flight' = IF rc = 0 THEN Append(in_flight, published'[Len(published')])
                                    ELSE in_flight
          /\ led_level' = IF rc = -1 THEN entry_level ELSE led_level
    /\ handler_pc' = "idle"
    /\ UNCHANGED <<sample, signal_type, delivered, expected, entry_level,
                   entry_published, echoes>>
    /\ UNCHANGED <<pc, wifi_vars, boot_vars>>

\* data_handler, lines 233 and 237, then 243-245: pub_status hands one
\* message to z_publisher_put, whose result is ignored.  The put can fail in
\* the transport, and fails when the publisher is not declared.
PubStatus ==
    /\ Running
    /\ handler_pc = "pub_status"
    /\ published' =
          Append(published,
                 pub_status(BranchLiteral(data_handler_branch(signal_type, sample.payload))))
    /\ \E rc \in {0, -1} :
          /\ (pub \/ rc = -1)
          /\ put_rc' = rc
          /\ in_flight' = IF rc = 0 THEN Append(in_flight, published'[Len(published')])
                                    ELSE in_flight
    /\ handler_pc' = "idle"
    /\ UNCHANGED <<sample, signal_type, delivered, expected, entry_level,
                   entry_published, echoes>>
    /\ UNCHANGED <<pc, wifi_vars, boot_vars, led_level>>

\* ------------------------------------------------------------------------
\* Specifications
\* ------------------------------------------------------------------------

Next ==
    \/ NvsFlashInit
    \/ WifiInitSta
    \/ WaitBits
    \/ UnregisterGotIp
    \/ UnregisterAnyId
    \/ WaitConnected
    \/ GpioInit
    \/ CheckLocator
    \/ ZOpen
    \/ DeclareSubscriber
    \/ DeclarePublisher
    \/ StaStart
    \/ StaDisconnected
    \/ StaGotIp
    \/ Deliver
    \/ GpioSetLevel
    \/ PubStatus

Spec == Init /\ [][Next]_vars

\* The main task and the read task are scheduled whenever they can run, and
\* the driver reports the outcome of every association it has started.  The
\* link itself and the transport's deliveries are under no obligation.
MainTask ==
    \/ NvsFlashInit
    \/ WifiInitSta
    \/ WaitBits
    \/ UnregisterGotIp
    \/ UnregisterAnyId
    \/ WaitConnected
    \/ GpioInit
    \/ CheckLocator
    \/ ZOpen
    \/ DeclareSubscriber
    \/ DeclarePublisher
ReadTask == GpioSetLevel \/ PubStatus
DriverReport ==
    \/ StaStart
    \/ (wifi = "connecting" /\ (StaDisconnected \/ StaGotIp))

FairSpec ==
    /\ Spec
    /\ WF_vars(MainTask)
    /\ WF_vars(ReadTask)
    /\ WF_vars(DriverReport)

\* The session with the device's own messages coming back on KEYEXPR:
\* app_main has come back from wifi_init_sta with the link up and goes on
\* to open the session and declare subscriber and publisher.  The read
\* task hands every sample it has received to the callback.
InitEcho ==
    /\ pc = "is_valid_locator"
    /\ LOCATOR \in Locators
    /\ s_is_wifi_connected = TRUE
    /\ s_retry_count = 0
    /\ event_bits = TRUE
    /\ handler_any_id = FALSE
    /\ handler_got_ip = FALSE
    /\ wifi = "connected"
    /\ attempts = 0
    /\ downs = 0
    /\ connect_key = STR_empty
    /\ session = FALSE
    /\ sub = FALSE
    /\ pub = FALSE
    /\ InitHandler
    /\ sample = NoSample

NextEcho ==
    \/ CheckLocator
    \/ ZOpen
    \/ DeclareSubscriber
    \/ DeclarePublisher
    \/ Deliver
    \/ GpioSetLevel
    \/ PubStatus
    \/ DeliverEcho

SpecEcho == InitEcho /\ [][NextEcho]_vars
FairSpecEcho ==
    /\ SpecEcho
    /\ WF_vars(ReadTask)
    /\ WF_vars(DeliverEcho)

\* The classifier alone, on every attachment of Attachments.
InitClassify ==
    /\ InitBoot
    /\ InitHandler
    /\ sample \in [attachment : Attachments, payload : {STR_true}]

AttachmentHandler ==
    /\ signal_type = "unset"
    /\ signal_type' = attachment_handler(sample.attachment)
    /\ UNCHANGED <<pc, wifi_vars, boot_vars, led_level>>
    /\ UNCHANGED <<handler_pc, sample, published, put_rc, delivered, expected,
                   entry_level, entry_published, in_flight, echoes>>

SpecClassify == InitClassify /\ [][AttachmentHandler]_vars

\* is_valid_locator alone, on every locator of LocatorInputs: app_main has
\* come back from wifi_init_sta and gpio_init and is about to validate.
InitLocator ==
    /\ pc = "is_valid_locator"
    /\ LOCATOR \in LocatorInputs
    /\ s_is_wifi_connected = TRUE
    /\ s_retry_count = 0
    /\ event_bits = TRUE
    /\ handler_any_id = FALSE
    /\ handler_got_ip = FALSE
    /\ wifi = "connected"
    /\ attempts = 0
    /\ downs = 0
    /\ connect_key = STR_empty
    /\ session = FALSE
    /\ sub = FALSE
    /\ pub = FALSE
    /\ InitHandler
    /\ sample = NoSample

SpecLocator == InitLocator /\ [][CheckLocator]_vars

\* ------------------------------------------------------------------------
\* Properties
\* ------------------------------------------------------------------------

\* data_handler has been called and has returned.
Returned == delivered > 0 /\ handler_pc = "idle"
\* The level a confirmation payload stands for.
PayloadLevel(payload) == IF payload = STR_true THEN 1 ELSE 0
\* The payloads of the published messages, in order.
PublishedPayloads == [i \in 1..Len(published) |-> published[i].payload]
\* data is longer than lit and starts with it.
Extends(data, lit) ==
    Len(data) > Len(lit) /\ SubSeq(data, 1, Len(lit)) = lit

\* C1: when data_handler returns from a sample it classified TargetValue
\* whose payload is exactly "true" or "false", the output level is 1 for
\* "true" and 0 for "false", and exactly one message was published during
\* the call, with that payload and the attachment "currentValue", whatever
\* the level was before.
C1_ValidCommandActuates ==
    (/\ Returned
     /\ signal_type = SIGNAL_TYPE_TARGET_VALUE
     /\ sample.payload \in {STR_true, STR_false})
    => /\ led_level = PayloadLevel(sample.payload)
       /\ Len(published) = entry_published + 1
       /\ published[Len(published)].payload = sample.payload
       /\ published[Len(published)].attachment = STR_currentValue

\* A "false" command has been handled with the output high before it.
C1_Witness ==
    /\ Returned
    /\ signal_type = SIGNAL_TYPE_TARGET_VALUE
    /\ sample.payload = STR_false
    /\ entry_level = 1
    /\ led_level = 0
    /\ Len(published) = entry_published + 1

\* C2: when data_handler returns from a sample it classified CurrentValue
\* or Unknown, the output level is the level at entry and nothing was
\* published during the call, whatever the payload and the prior level.
C2_EchoIgnored ==
    (/\ Returned
     /\ signal_type \in {SIGNAL_TYPE_CURRENT_VALUE, SIGNAL_TYPE_UNKNOWN})
    => /\ led_level = entry_level
       /\ Len(published) = entry_published

\* A "currentValue" sample with payload "true" has been handled with the
\* output high.
C2_Witness ==
    /\ Returned
    /\ signal_type = SIGNAL_TYPE_CURRENT_VALUE
    /\ sample.payload = STR_true
    /\ entry_level = 1
    /\ led_level = 1

\* C3: when data_handler returns from a sample it classified TargetValue
\* whose payload is neither exactly "true" nor exactly "false", the output
\* level is the level at entry and nothing was published during the call;
\* the handler returns in the same step, taking no exit.
C3_UnknownPayloadIgnored ==
    /\ (/\ Returned
        /\ signal_type = SIGNAL_TYPE_TARGET_VALUE
        /\ sample.payload \notin {STR_true, STR_false})
       => /\ led_level = entry_level
          /\ Len(published) = entry_published
    /\ (/\ handler_pc # "idle"
        /\ signal_type = SIGNAL_TYPE_TARGET_VALUE)
       => sample.payload \in {STR_true, STR_false}

\* A target value "truee" has been handled with the output high, and the
\* process runs on.
C3_Witness ==
    /\ Returned
    /\ Running
    /\ signal_type = SIGNAL_TYPE_TARGET_VALUE
    /\ sample.payload = <<116, 114, 117, 101, 101>>
    /\ entry_level = 1
    /\ led_level = 1

\* C4: attachment_handler returns Unknown without an attachment,
\* CurrentValue for "currentValue", TargetValue for "targetValue", and
\* Unknown for every attachment that is longer than one of the two literals
\* and starts with it.
C4_Classification ==
    signal_type # "unset" =>
        LET a == sample.attachment
        IN  /\ ~a.present => signal_type = SIGNAL_TYPE_UNKNOWN
            /\ (a.present /\ a.data = STR_currentValue)
                   => signal_type = SIGNAL_TYPE_CURRENT_VALUE
            /\ (a.present /\ a.data = STR_targetValue)
                   => signal_type = SIGNAL_TYPE_TARGET_VALUE
            /\ (/\ a.present
                /\ (Extends(a.data, STR_currentValue) \/ Extends(a.data, STR_targetValue)))
                   => signal_type = SIGNAL_TYPE_UNKNOWN

\* C5: every attachment that is present and is not byte for byte
\* "currentValue" or "targetValue" is classified Unknown (proper prefixes
\* and the empty attachment included), so that handling such a sample
\* neither changes the output level nor publishes.
C5_ExactEquality ==
    (/\ Returned
     /\ sample.attachment.present
     /\ sample.attachment.data \notin {STR_currentValue, STR_targetValue})
    => /\ signal_type = SIGNAL_TYPE_UNKNOWN
       /\ led_level = entry_level
       /\ Len(published) = entry_published

\* C6: whenever data_handler is not in the middle of a call and something
\* has been published, the output level is the level the last published
\* payload stands for.
C6_LevelIsLastPublished ==
    (handler_pc = "idle" /\ Len(published) > 0)
    => led_level = PayloadLevel(published[Len(published)].payload)

\* Two confirmations have been published, the first "true", and the output
\* is low again.
C6_Witness ==
    /\ handler_pc = "idle"
    /\ Len(published) >= 2
    /\ published[1].payload = STR_true
    /\ led_level = 0

\* C7: whenever data_handler is not in the middle of a call, the published
\* payloads are, in order and multiplicity, the payloads of the delivered
\* samples that data_handler classified TargetValue and whose payload is
\* "true" or "false"; and every step that publishes a message does so with
\* the output level at the value the message stands for.
C7_PublishesFollowCommands ==
    /\ [](handler_pc = "idle" => PublishedPayloads = expected)
    /\ [][published' # published
             => /\ led_level = PayloadLevel(published'[Len(published')].payload)
                /\ led_level' = led_level]_vars

\* "true", "false", "true" were commanded and confirmed in that order.
C7_Witness ==
    /\ handler_pc = "idle"
    /\ expected = <<STR_true, STR_false, STR_true>>
    /\ PublishedPayloads = <<STR_true, STR_false, STR_true>>
    /\ led_level = 1

\* C8: counting the link-down events event_handler has handled since it last
\* handled a link-up (or since the start), each of the first
\* ESP_MAXIMUM_RETRY of them calls esp_wifi_connect exactly once and every
\* further one calls it not at all.
C8_RetryBudget ==
    [][downs' = downs + 1
         => IF downs < ESP_MAXIMUM_RETRY
            THEN attempts' = attempts + 1 /\ wifi' = "connecting"
            ELSE attempts' = attempts /\ wifi' = "idle"]_vars

\* The budget is used up and one more link-down has been handled: the
\* initial attempt and ESP_MAXIMUM_RETRY retries were made, and no other.
C8_Witness ==
    /\ downs = ESP_MAXIMUM_RETRY + 1
    /\ attempts = ESP_MAXIMUM_RETRY + 1
    /\ s_retry_count = ESP_MAXIMUM_RETRY
    /\ wifi = "idle"

\* C9: every link-up event, at any point of the device's lifetime, leaves
\* s_retry_count at zero.
C9_LinkUpResets ==
    [][(wifi # "connected" /\ wifi' = "connected") => s_retry_count' = 0]_vars

\* C10: once ESP_MAXIMUM_RETRY link-down events have been handled while
\* wifi_init_sta waits, either a link-up follows or wifi_init_sta returns.
C10_WaitEnds ==
    (/\ pc = "xEventGroupWaitBits"
     /\ ~event_bits
     /\ downs >= ESP_MAXIMUM_RETRY)
    ~> (event_bits \/ pc # "xEventGroupWaitBits")

\* wifi_init_sta has returned to app_main.
WifiInitReturned ==
    pc \in {"wait_connected", "gpio_init", "is_valid_locator", "z_open",
            "z_declare_subscriber", "z_declare_publisher", "idle"}

\* C11: once wifi_init_sta has returned and the session runs, a link-down
\* with retry budget left starts a reassociation.
C11_ReconnectAfterConnected ==
    [][(/\ WifiInitReturned
        /\ session
        /\ wifi = "connected"
        /\ wifi' # "connected"
        /\ s_retry_count < ESP_MAXIMUM_RETRY)
         => wifi' = "connecting"]_vars

\* C13: with the empty locator the validation step goes on to z_open and
\* inserts no connect or listen endpoint.
C13_EmptyLocatorAccepted ==
    [][(pc = "is_valid_locator" /\ LOCATOR = STR_empty /\ pc' # pc)
         => (pc' = "z_open" /\ connect_key' = STR_empty)]_vars

\* C15: data_handler is entered only once the publisher is declared.
C15_NoCallbackBeforePublisher ==
    [][delivered' = delivered + 1 => pub]_vars

\* C14: a start-up failure ends the bootstrap at the failing step.  A
\* non-empty locator that fails validation never gets to z_open; without a
\* session there is neither subscriber nor publisher; without a subscriber
\* there is no publisher; the idle loop is reached only when all steps
\* succeeded; a failing step exits, and an exited process stays exited with
\* nothing further declared.
C14_StartupFailuresFatal ==
    /\ []((LOCATOR # STR_empty /\ is_valid_locator(LOCATOR) # 0)
            => (/\ ~session
                /\ pc \notin {"z_open", "z_declare_subscriber",
                              "z_declare_publisher", "idle"}))
    /\ [](~session => (~sub /\ ~pub))
    /\ [](~sub => ~pub)
    /\ [](pc = "idle" => (session /\ sub /\ pub))
    /\ [][(pc = "z_open" /\ pc' # pc) => (pc' = "exited" <=> ~session')]_vars
    /\ [][(pc = "z_declare_subscriber" /\ pc' # pc) => (pc' = "exited" <=> ~sub')]_vars
    /\ [][(pc = "z_declare_publisher" /\ pc' # pc) => (pc' = "exited" <=> ~pub')]_vars
    /\ [][pc = "exited"
            => (pc' = "exited" /\ session' = session /\ sub' = sub /\ pub' = pub)]_vars

\* The subscriber declaration failed on an open session: the process has
\* exited and no publisher is declared.
C14_Witness ==
    /\ pc = "exited"
    /\ session
    /\ ~sub
    /\ ~pub

\* C18: in the handling of a valid command the pin is driven before the
\* confirmation is published: while the pin is not yet driven nothing has
\* been published for the command, the publish step is taken only from the
\* position after gpio_set_level, and it publishes the value the pin is at.
C18_DriveBeforePublish ==
    /\ [](handler_pc = "gpio_set_level" => Len(published) = entry_published)
    /\ [](handler_pc = "pub_status"
            => (/\ Len(published) = entry_published
                /\ led_level = PayloadLevel(sample.payload)))
    /\ [][published' # published
            => (/\ handler_pc = "pub_status"
                /\ led_level = PayloadLevel(published'[Len(published')].payload))]_vars

\* A "false" command has driven the pin low from high and its confirmation
\* is not published yet.
C18_Witness ==
    /\ handler_pc = "pub_status"
    /\ sample.payload = STR_false
    /\ entry_level = 1
    /\ led_level = 0
    /\ Len(published) = entry_published

\* C19: s_retry_count stays within 0..ESP_MAXIMUM_RETRY, it grows only by
\* one and only in a step that calls esp_wifi_connect, and no more than
\* 1 + ESP_MAXIMUM_RETRY calls are made between two link-up events or
\* before the first.
C19_RetryCounterBounded ==
    /\ [](/\ s_retry_count >= 0
          /\ s_retry_count <= ESP_MAXIMUM_RETRY
          /\ attempts <= 1 + ESP_MAXIMUM_RETRY)
    /\ [][s_retry_count' > s_retry_count
            => (/\ s_retry_count' = s_retry_count + 1
                /\ attempts' = attempts + 1
                /\ wifi' = "connecting")]_vars

\* The last retry of the budget is under way.
C19_Witness ==
    /\ s_retry_count = ESP_MAXIMUM_RETRY
    /\ attempts = 1 + ESP_MAXIMUM_RETRY
    /\ wifi = "connecting"

\* C20: the flag s_is_wifi_connected is set whenever wifi_init_sta has
\* returned (and from the moment its wait is over), so app_main's polling
\* loop finds it set and z_open and the two declarations happen with it set.
C20_SessionAfterConnectivity ==
    /\ (WifiInitReturned \/ pc \in {"unregister_got_ip", "unregister_any_id"})
          => s_is_wifi_connected
    /\ (session \/ sub \/ pub) => s_is_wifi_connected
    /\ ~s_is_wifi_connected
          => pc \in {"nvs_flash_init", "wifi_init_sta", "xEventGroupWaitBits", "aborted"}

\* wifi_init_sta has just returned to the polling loop, the flag is set and
\* nothing of the transport exists yet.
C20_Witness ==
    /\ pc = "wait_connected"
    /\ s_is_wifi_connected
    /\ ~session

\* C16: when z_publisher_put fails for a valid command, data_handler returns
\* with the output at the commanded level and with exactly one message
\* handed to the publisher for that command; the publish step never touches
\* the output; and a valid command delivered after a failed put is taken up
\* for actuation like any other.
C16_PublishFailureKeepsLevel ==
    /\ []((/\ Returned
           /\ put_rc = -1
           /\ signal_type = SIGNAL_TYPE_TARGET_VALUE
           /\ sample.payload \in {STR_true, STR_false})
            => (/\ led_level = PayloadLevel(sample.payload)
                /\ Len(published) = entry_published + 1))
    /\ [][published' # published
            => (/\ Len(published') = Len(published) + 1
                /\ led_level' = led_level
                /\ handler_pc' = "idle")]_vars
    /\ [][(/\ put_rc = -1
           /\ delivered' = delivered + 1
           /\ ValidCommand(sample'))
            => handler_pc' = "gpio_set_level"]_vars

\* With the publisher declared, the put for a "true" command failed in the
\* transport and the output, low before, is high.
C16_Witness ==
    /\ Returned
    /\ pub
    /\ put_rc = -1
    /\ signal_type = SIGNAL_TYPE_TARGET_VALUE
    /\ sample.payload = STR_true
    /\ entry_level = 0
    /\ led_level = 1
    /\ Len(published) = entry_published + 1

\* C12: is_valid_locator returns 0 for every locator of the shape
\* tcp/<1-3 digits>.<1-3 digits>.<1-3 digits>.<1-3 digits>:<digits>#iface=<name>
\* (octets such as 999 included), so that app_main goes on to z_open, and
\* non-zero for every locator without the protocol prefix, without one of
\* the octets, without the port, without the "#iface=" marker, or with
\* bytes before "tcp/" or after the interface name that are not part of the
\* shape, so that app_main exits; "tcp/192.168.1.10:7447#iface=eth0" is of
\* the first kind and "tcp/192.168.1.10:7447" of the second.
C12_LocatorShape ==
    /\ is_valid_locator(LOC_full) = 0
    /\ is_valid_locator(LOC_noiface) # 0
    /\ pc # "is_valid_locator" =>
         /\ LOCATOR \in WellFormedLocators => pc = "z_open"
         /\ LOCATOR \in MalformedLocators => pc = "exited"

\* A locator with the octet 999 has been validated and accepted.
C12_Witness ==
    /\ pc = "z_open"
    /\ LOCATOR \in WellFormedLocators
    /\ SubSeq(LOCATOR, 5, 7) = <<57, 57, 57>>

\* Nothing is left to be done for the subscriber: the program has ended, or
\* data_handler is between calls and none of its messages is on its way
\* back.
Quiescent == ~Running \/ (handler_pc = "idle" /\ in_flight = <<>>)

\* C17: with the device's own confirmations coming back to data_handler,
\* every delivery of such an echo is classified CurrentValue and returns at
\* once, leaving the output level and the published messages as they were
\* and counting as no command; the number of published confirmations never
\* exceeds the number of valid TargetValue commands delivered from outside;
\* and once no further outside sample arrives, the system comes to rest
\* with data_handler between calls and no echo outstanding.
C17_NoFeedbackLoop ==
    /\ [](Len(published) <= Len(expected))
    /\ [][echoes' # echoes
            => (/\ signal_type' = SIGNAL_TYPE_CURRENT_VALUE
                /\ handler_pc' = "idle"
                /\ led_level' = led_level
                /\ published' = published
                /\ expected' = expected
                /\ Len(in_flight') < Len(in_flight))]_vars
    /\ <>[]Quiescent

\* Two commands were confirmed, both confirmations came back, the second
\* one last, and the level is still the one last commanded.
C17_Witness ==
    /\ handler_pc = "idle"
    /\ echoes = 2
    /\ in_flight = <<>>
    /\ Len(published) = 2
    /\ Len(expected) = 2
    /\ sample = EchoSample(published[2])
    /\ signal_type = SIGNAL_TYPE_CURRENT_VALUE
    /\ led_level = PayloadLevel(expected[2])
    /\ expected[1] # expected[2]

====
